---- MODULE Spec2Model ----
(***************************************************************************)
(* Product catalog: the backend (src/backend/server.js) and the page's     *)
(* script (src/client-ui/js/app.js).                                       *)
(*                                                                         *)
(* Backend: the Product Store (Mongoose model Product), the Image Store    *)
(* (the uploads directory) and the Express handlers of the Catalog API.    *)
(* Every handler is cut at its awaits: a step is what runs between two     *)
(* awaits, and steps of different requests interleave.                     *)
(*                                                                         *)
(* Client: allProducts, filteredProducts, currentPage, the three controls  *)
(* and what the page shows; a step is one event handler or one             *)
(* continuation of fetchProducts.                                          *)
(*                                                                         *)
(* Units: price is in cents and rating in tenths, so that 149.99 is 14999  *)
(* and 4.5 is 45.  An ObjectId string is modelled by a positive integer;   *)
(* MalformedId is a request parameter that is no ObjectId.  A multipart    *)
(* field is UNDEFINED (not sent) or Some(v), v the value Mongoose casts     *)
(* the sent string to.                                                     *)
(***************************************************************************)
EXTENDS Integers, Sequences, FiniteSets, TLC

VARIABLES
    products,   \* Product Store: stored ObjectId -> document
    uploads,    \* Image Store: the set of filenames present in uploads/
    now,        \* the reading of Date.now()
    nextId,     \* the next ObjectId the driver generates
    reqs,       \* the requests in flight, by slot
    resp,       \* the response sent last
    started,    \* number of write requests accepted so far
    deleted,    \* history: ids for which DELETE has answered 200
    fsFailed,   \* history: an unlinkSync has thrown
    stored,     \* history: the filenames multer has stored, in order
    allProducts,        \* client: the fetched array
    filteredProducts,   \* client: the filtered and sorted array
    currentPage,        \* client: the page shown
    categoryFilter,     \* client: categoryFilter.value
    sortBySelect,       \* client: sortBySelect.value
    searchInput,        \* client: searchInput.value
    fetching,           \* client: how far fetchProducts has come
    loadingElement,     \* client: the loading indicator
    productGrid,        \* client: what the grid shows
    paginationElement   \* client: the pagination controls on screen

(* The client's variables.                                                *)
cvars == <<allProducts, filteredProducts, currentPage, categoryFilter, sortBySelect,
           searchInput, fetching, loadingElement, productGrid, paginationElement>>

(* The backend's variables.                                               *)
bvars == <<products, uploads, now, nextId, reqs, resp, started, deleted, fsFailed, stored>>

vars == <<bvars, cvars>>

(* ------------------------------ bounds ------------------------------- *)

MaxRequests == 2
MaxInFlight == 2
MaxClock == 1
MaxFieldRequests == 1

(* ------------------------------ values ------------------------------- *)

UNDEFINED == <<>>
Some(v) == <<v>>

MalformedId == 0

Fields == {"name", "description", "price", "category", "stock", "rating"}

Required == {"name", "description", "price", "category", "image"}

sampleProducts ==
    << [name |-> "Wireless Headphones", description |-> "High-quality wireless headphones with noise cancellation.",
        price |-> 14999, category |-> "electronics", stock |-> 50, rating |-> 45, image |-> "headphones.jpg"],
       [name |-> "Smart Watch", description |-> "Track your fitness and stay connected with this sleek smart watch.",
        price |-> 19999, category |-> "electronics", stock |-> 30, rating |-> 42, image |-> "smartwatch.jpg"],
       [name |-> "Cotton T-Shirt", description |-> "Comfortable 100% cotton t-shirt available in multiple colors.",
        price |-> 1999, category |-> "clothing", stock |-> 100, rating |-> 40, image |-> "tshirt.jpg"],
       [name |-> "Denim Jeans", description |-> "Classic denim jeans with a modern fit.",
        price |-> 5999, category |-> "clothing", stock |-> 75, rating |-> 43, image |-> "jeans.jpg"],
       [name |-> "Coffee Maker", description |-> "Programmable coffee maker for the perfect morning brew.",
        price |-> 8999, category |-> "home", stock |-> 25, rating |-> 47, image |-> "coffeemaker.jpg"],
       [name |-> "Blender", description |-> "High-powered blender for smoothies and more.",
        price |-> 7999, category |-> "home", stock |-> 20, rating |-> 41, image |-> "blender.jpg"],
       [name |-> "Wireless Earbuds", description |-> "Compact wireless earbuds with amazing sound quality.",
        price |-> 12999, category |-> "electronics", stock |-> 40, rating |-> 46, image |-> "earbuds.jpg"],
       [name |-> "Running Shoes", description |-> "Lightweight and comfortable running shoes for all terrains.",
        price |-> 8999, category |-> "clothing", stock |-> 60, rating |-> 44, image |-> "shoes.jpg"] >>

SeedIds == 1..Len(sampleProducts)

SeedImages == {sampleProducts[i].image : i \in SeedIds}

(* A document as the store returns it: the schema's paths plus the id.    *)
Doc(id, d, t) ==
    [id |-> id, name |-> d.name, description |-> d.description, price |-> d.price,
     category |-> d.category, image |-> d.image, stock |-> d.stock,
     rating |-> d.rating, createdAt |-> t]

(* seedDatabase on an empty collection: insertMany(sampleProducts).  The  *)
(* sample images are the files the operator has put into uploads/.        *)
seedDatabase == [i \in SeedIds |-> Doc(i, sampleProducts[i], 0)]

(* --------------------------- request inputs -------------------------- *)

Body(n, d, p, c, s, r) ==
    [name |-> n, description |-> d, price |-> p, category |-> c, stock |-> s, rating |-> r]

(* Every choice of sent fields, and the full body with a negative price  *)
(* and with a negative stock.                                             *)
AllBodies ==
    [name : {UNDEFINED, Some("Mug")},
     description : {UNDEFINED, Some("A mug")},
     price : {UNDEFINED, Some(999)},
     category : {UNDEFINED, Some("home")},
     stock : {UNDEFINED, Some(5)},
     rating : {UNDEFINED, Some(40)}]
    \cup { Body(Some("Mug"), Some("A mug"), Some(-500), Some("home"), Some(5), Some(40)),
           Body(Some("Mug"), Some("A mug"), Some(999), Some("home"), Some(-1), Some(40)) }

(* The bodies the interleaved requests carry: every field sent, and      *)
(* nothing sent.                                                          *)
Bodies ==
    { Body(Some("Mug"), Some("A mug"), Some(999), Some("home"), Some(5), Some(40)),
      Body(UNDEFINED, UNDEFINED, UNDEFINED, UNDEFINED, UNDEFINED, UNDEFINED) }

OriginalNames == {"mug.png"}

NoFile == ""

Files == OriginalNames \cup {NoFile}

Categories == {"electronics", "clothing", "home", "toys"}

ReqIds == {MalformedId, 1, Len(sampleProducts) + 1}

Slots == 1..MaxInFlight

Idle == [op |-> "idle", pc |-> "idle"]

NoAnswer == [op |-> "none"]

(* The names GET /api/products/images/:imageName is asked for.            *)
ImageNames ==
    {sampleProducts[1].image}
        \cup {ToString(t) \o "-" \o o : t \in 0..MaxClock, o \in OriginalNames}

(* ------------------------------ stores ------------------------------- *)

(* storage.filename: Date.now() + '-' + file.originalname                 *)
filename(t, originalname) == ToString(t) \o "-" \o originalname

(* A storage that does not keep the file.                                *)
upload_lost(file) == uploads

(* multer's diskStorage: the file is written (an existing one of the same *)
(* name is overwritten) before the handler runs; no file, no write.        *)
upload(file) ==
    IF file = NoFile THEN uploads ELSE uploads \cup {filename(now, file)}

isValidObjectId(id) == id # MalformedId

(* Product.findById: the document, or null (here the empty set).          *)
findById(id) == IF id \in DOMAIN products THEN {products[id]} ELSE {}

(* Product.find()                                                         *)
find == {products[id] : id \in DOMAIN products}

(* A filter that is not applied.                                         *)
findByCategory_all(c) == find

(* Product.find({ category })                                             *)
findByCategory(c) == {p \in find : p.category = c}

(* fs.existsSync                                                          *)
existsSync(f) == f \in uploads

(* The filenames multer has stored so far, this request's file included.  *)
stores(file) == IF file = NoFile THEN stored ELSE Append(stored, filename(now, file))

(* No pagination button is on screen.                                    *)
NoControls == [total |-> 0, active |-> 0, prevDisabled |-> FALSE, nextDisabled |-> FALSE]

Init ==
    /\ products = seedDatabase
    /\ uploads = SeedImages
    /\ now = 0
    /\ nextId = Len(sampleProducts) + 1
    /\ reqs = [r \in Slots |-> Idle]
    /\ resp = NoAnswer
    /\ started = 0
    /\ deleted = {}
    /\ fsFailed = FALSE
    /\ stored = <<>>
    /\ allProducts = <<>>
    /\ filteredProducts = <<>>
    /\ currentPage = 1
    /\ categoryFilter = ""
    /\ sortBySelect = ""
    /\ searchInput = ""
    /\ fetching = "fetch"
    /\ loadingElement = [display |-> "block", error |-> FALSE]
    /\ productGrid = [placeholder |-> FALSE, cards |-> <<>>]
    /\ paginationElement = NoControls

(* Date.now() advances.                                                   *)
Tick ==
    /\ now < MaxClock
    /\ now' = now + 1
    /\ UNCHANGED <<products, uploads, nextId, reqs, resp, started, deleted, fsFailed, stored, cvars>>

(* ------------------------ POST /api/products ------------------------- *)

(* stock || 0, rating || 0                                                *)
OrZero(m) == IF m = UNDEFINED THEN 0 ELSE m[1]

(* new Product({...}): the driver generates the id, the schema's default  *)
(* sets createdAt; paths the body did not send stay undefined.            *)
newProduct(id, body, image, t) ==
    [id |-> id, name |-> body.name, description |-> body.description,
     price |-> body.price, category |-> body.category,
     stock |-> Some(OrZero(body.stock)), rating |-> Some(OrZero(body.rating)),
     image |-> Some(image), createdAt |-> t]

(* The schema's validators, run by save(): required paths are set.        *)
validate(d) == \A f \in Required : d[f] # UNDEFINED

(* The document save() inserts.                                           *)
toObject(d) ==
    [id |-> d.id, name |-> d.name[1], description |-> d.description[1],
     price |-> d.price[1], category |-> d.category[1], stock |-> d.stock[1],
     rating |-> d.rating[1], image |-> d.image[1], createdAt |-> d.createdAt]

(* A request takes the first free slot.                                   *)
Free(r) == reqs[r] = Idle /\ \A q \in Slots : q < r => reqs[q] # Idle

Finish(r, answer) ==
    /\ resp' = answer
    /\ reqs' = [reqs EXCEPT ![r] = Idle]

(* A handler that takes the image as optional.                           *)
missingFile_never(file) == FALSE

(* if (!req.file)                                                         *)
missingFile(file) == file = NoFile

(* upload.single('image'), then the handler up to its await of save().    *)
CreateArrive(r, file, body) ==
    /\ Free(r)
    /\ started < MaxRequests
    /\ started' = started + 1
    /\ uploads' = upload(file)
    /\ IF missingFile(file)
       THEN /\ resp' = [op |-> "create", status |-> 400, image |-> NoFile, docs |-> {}]
            /\ UNCHANGED <<reqs, nextId>>
       ELSE /\ reqs' = [reqs EXCEPT ![r] =
                   [op |-> "create", pc |-> "save",
                    doc |-> newProduct(nextId, body, filename(now, file), now)]]
            /\ nextId' = nextId + 1
            /\ UNCHANGED resp
    /\ stored' = stores(file)
    /\ UNCHANGED <<products, now, deleted, fsFailed, cvars>>

(* A save() that inserts before it validates.                            *)
CreateSave_insertsFirst(r) ==
    /\ reqs[r].op = "create"
    /\ reqs[r].pc = "save"
    /\ LET d == reqs[r].doc
           inserted == [f \in DOMAIN d |->
                           IF f \in {"id", "createdAt"} THEN d[f]
                           ELSE IF d[f] # UNDEFINED THEN d[f][1]
                           ELSE IF f \in {"price", "stock", "rating"} THEN 0 ELSE ""]
       IN  /\ products' = [id \in DOMAIN products \cup {d.id} |->
                               IF id = d.id THEN inserted ELSE products[id]]
           /\ IF validate(d)
              THEN /\ reqs' = [reqs EXCEPT ![r] =
                          [op |-> "create", pc |-> "respond",
                           out |-> [op |-> "create", status |-> 201, image |-> d.image[1],
                                    docs |-> {inserted}]]]
                   /\ UNCHANGED resp
              ELSE Finish(r, [op |-> "create", status |-> 400, image |-> d.image[1], docs |-> {}])
    /\ UNCHANGED <<uploads, now, nextId, started, deleted, fsFailed, stored, cvars>>

(* newProduct.save(): validation, then the insert; a validation error is  *)
(* caught and answered 400.                                               *)
CreateSave(r) ==
    /\ reqs[r].op = "create"
    /\ reqs[r].pc = "save"
    /\ LET d == reqs[r].doc IN
       IF validate(d)
       THEN /\ products' = [id \in DOMAIN products \cup {d.id} |->
                               IF id = d.id THEN toObject(d) ELSE products[id]]
            /\ reqs' = [reqs EXCEPT ![r] =
                   [op |-> "create", pc |-> "respond",
                    out |-> [op |-> "create", status |-> 201, image |-> d.image[1],
                             docs |-> {toObject(d)}]]]
            /\ UNCHANGED resp
       ELSE /\ Finish(r, [op |-> "create", status |-> 400, image |-> d.image[1], docs |-> {}])
            /\ UNCHANGED products
    /\ UNCHANGED <<uploads, now, nextId, started, deleted, fsFailed, stored, cvars>>

(* The continuation after the last await: the answer is sent.             *)
Respond(r) ==
    /\ reqs[r].op # "idle"
    /\ reqs[r].pc = "respond"
    /\ Finish(r, reqs[r].out)
    /\ deleted' = IF reqs[r].op = "delete" /\ reqs[r].out.status = 200
                  THEN deleted \cup {reqs[r].id} ELSE deleted
    /\ UNCHANGED <<products, uploads, now, nextId, started, fsFailed, stored, cvars>>

(* ----------------------- PUT /api/products/:id ----------------------- *)

(* updateData: the six body fields, undefined when not sent, and image    *)
(* when a file came with the request.                                     *)
updateData(body, image) ==
    [name |-> body.name, description |-> body.description, price |-> body.price,
     category |-> body.category, stock |-> body.stock, rating |-> body.rating,
     image |-> IF image = NoFile THEN UNDEFINED ELSE Some(image)]

(* An update that replaces the document: a path updateData leaves        *)
(* undefined is reset to its empty value.                                 *)
applyUpdate_replaces(doc, data) ==
    [f \in DOMAIN doc |->
        IF f \notin DOMAIN data THEN doc[f]
        ELSE IF data[f] # UNDEFINED THEN data[f][1]
        ELSE IF f \in {"price", "stock", "rating"} THEN 0 ELSE ""]

(* findByIdAndUpdate's $set: Mongoose drops the keys whose value is       *)
(* undefined and sets the others; paths outside updateData are untouched, *)
(* and no validator runs.                                                 *)
applyUpdate(doc, data) ==
    [f \in DOMAIN doc |->
        IF f \in DOMAIN data /\ data[f] # UNDEFINED THEN data[f][1] ELSE doc[f]]

(* upload.single('image'), then the handler up to its first await:        *)
(* findById when a file came, findByIdAndUpdate otherwise.                *)
UpdateArrive(r, id, file, body) ==
    /\ Free(r)
    /\ started < MaxRequests
    /\ started' = started + 1
    /\ uploads' = upload(file)
    /\ reqs' = [reqs EXCEPT ![r] =
           [op |-> "update", pc |-> IF file = NoFile THEN "update" ELSE "find",
            id |-> id, body |-> body, old |-> {}, out |-> NoAnswer,
            image |-> IF file = NoFile THEN NoFile ELSE filename(now, file)]]
    /\ stored' = stores(file)
    /\ UNCHANGED <<products, now, nextId, resp, deleted, fsFailed, cvars>>

(* await Product.findById(req.params.id): a parameter that is no ObjectId *)
(* rejects with a CastError, which the catch answers 400.                 *)
UpdateFind(r) ==
    /\ reqs[r].op = "update"
    /\ reqs[r].pc = "find"
    /\ IF isValidObjectId(reqs[r].id)
       THEN /\ reqs' = [reqs EXCEPT ![r].old = findById(reqs[r].id), ![r].pc = "unlink"]
            /\ UNCHANGED resp
       ELSE Finish(r, [op |-> "update", status |-> 400, id |-> reqs[r].id,
                       image |-> reqs[r].image, docs |-> {}])
    /\ UNCHANGED <<products, uploads, now, nextId, started, deleted, fsFailed, stored, cvars>>

(* Lines 140-145: the old image is unlinked when the product was found    *)
(* and its file exists; unlinkSync may throw, which the catch answers     *)
(* 400.  Then findByIdAndUpdate is issued.                                *)
UpdateUnlink(r, throws) ==
    /\ reqs[r].op = "update"
    /\ reqs[r].pc = "unlink"
    /\ LET product == reqs[r].old
           attempt == \E p \in product : p.image # "" /\ existsSync(p.image)
       IN  IF attempt /\ throws
           THEN /\ Finish(r, [op |-> "update", status |-> 400, id |-> reqs[r].id,
                              image |-> reqs[r].image, docs |-> {}])
                /\ fsFailed' = TRUE
                /\ UNCHANGED uploads
           ELSE /\ uploads' = uploads \ {p.image : p \in product}
                /\ reqs' = [reqs EXCEPT ![r].pc = "update"]
                /\ UNCHANGED <<resp, fsFailed>>
    /\ UNCHANGED <<products, now, nextId, started, deleted, stored, cvars>>

(* await Product.findByIdAndUpdate(id, updateData, { new: true }): a      *)
(* CastError is answered 400, null is answered 404, else the updated      *)
(* document is what the handler will send.                                *)
UpdateApply(r) ==
    /\ reqs[r].op = "update"
    /\ reqs[r].pc = "update"
    /\ LET id == reqs[r].id
           answer(status, docs) ==
               [op |-> "update", status |-> status, id |-> id,
                image |-> reqs[r].image, docs |-> docs,
                old |-> {p.image : p \in reqs[r].old}]
       IN  IF ~isValidObjectId(id)
           THEN Finish(r, answer(400, {})) /\ UNCHANGED products
           ELSE IF findById(id) = {}
           THEN Finish(r, answer(404, {})) /\ UNCHANGED products
           ELSE LET updatedProduct ==
                        applyUpdate(products[id], updateData(reqs[r].body, reqs[r].image))
                IN  /\ products' = [products EXCEPT ![id] = updatedProduct]
                    /\ reqs' = [reqs EXCEPT ![r].pc = "respond",
                                            ![r].out = answer(200, {updatedProduct})]
                    /\ UNCHANGED resp
    /\ UNCHANGED <<uploads, now, nextId, started, deleted, fsFailed, stored, cvars>>

(* --------------------- DELETE /api/products/:id ---------------------- *)

DeleteArrive(r, id) ==
    /\ Free(r)
    /\ started < MaxRequests
    /\ started' = started + 1
    /\ reqs' = [reqs EXCEPT ![r] =
           [op |-> "delete", pc |-> "find", id |-> id, old |-> {}, out |-> NoAnswer]]
    /\ UNCHANGED <<products, uploads, now, nextId, resp, deleted, fsFailed, stored, cvars>>

(* await Product.findById(req.params.id): a CastError is answered 500,    *)
(* null is answered 404.                                                  *)
DeleteFind(r) ==
    /\ reqs[r].op = "delete"
    /\ reqs[r].pc = "find"
    /\ LET id == reqs[r].id IN
       IF ~isValidObjectId(id)
       THEN Finish(r, [op |-> "delete", status |-> 500, id |-> id])
       ELSE IF findById(id) = {}
       THEN Finish(r, [op |-> "delete", status |-> 404, id |-> id])
       ELSE /\ reqs' = [reqs EXCEPT ![r].old = findById(id), ![r].pc = "unlink"]
            /\ UNCHANGED resp
    /\ UNCHANGED <<products, uploads, now, nextId, started, deleted, fsFailed, stored, cvars>>

(* Lines 174-181: the image is unlinked when its file exists; unlinkSync  *)
(* may throw, which the catch answers 500.  Then findByIdAndDelete is     *)
(* issued.                                                                *)
DeleteUnlink(r, throws) ==
    /\ reqs[r].op = "delete"
    /\ reqs[r].pc = "unlink"
    /\ LET product == reqs[r].old
           attempt == \E p \in product : p.image # "" /\ existsSync(p.image)
       IN  IF attempt /\ throws
           THEN /\ Finish(r, [op |-> "delete", status |-> 500, id |-> reqs[r].id])
                /\ fsFailed' = TRUE
                /\ UNCHANGED uploads
           ELSE /\ uploads' = uploads \ {p.image : p \in product}
                /\ reqs' = [reqs EXCEPT ![r].pc = "delete"]
                /\ UNCHANGED <<resp, fsFailed>>
    /\ UNCHANGED <<products, now, nextId, started, deleted, stored, cvars>>

(* A delete that leaves the document in the store.                       *)
findByIdAndDelete_keeps(id) == products

(* Product.findByIdAndDelete: the store without the document.             *)
findByIdAndDelete(id) == [i \in DOMAIN products \ {id} |-> products[i]]

(* await Product.findByIdAndDelete(req.params.id), answered 200 whether   *)
(* or not the document was still there.                                   *)
DeleteApply(r) ==
    /\ reqs[r].op = "delete"
    /\ reqs[r].pc = "delete"
    /\ products' = findByIdAndDelete(reqs[r].id)
    /\ reqs' = [reqs EXCEPT ![r].pc = "respond",
                            ![r].out = [op |-> "delete", status |-> 200, id |-> reqs[r].id]]
    /\ UNCHANGED <<uploads, now, nextId, resp, started, deleted, fsFailed, stored, cvars>>

(* ------------------------------ reads -------------------------------- *)

(* A list answer is recorded by the ids of the documents it carries.      *)
Ids(docs) == {p.id : p \in docs}

(* GET /api/products                                                      *)
GetProducts ==
    /\ resp' = [op |-> "list", status |-> 200, ids |-> Ids(find)]
    /\ UNCHANGED <<products, uploads, now, nextId, reqs, started, deleted, fsFailed, stored, cvars>>

(* GET /api/products/category/:category                                   *)
GetByCategory(c) ==
    /\ resp' = [op |-> "category", status |-> 200, category |-> c,
                ids |-> Ids(findByCategory(c))]
    /\ UNCHANGED <<products, uploads, now, nextId, reqs, started, deleted, fsFailed, stored, cvars>>

(* GET /api/products/:id: a CastError is answered 500, null 404.          *)
GetProduct(id) ==
    /\ resp' = IF ~isValidObjectId(id)
               THEN [op |-> "get", status |-> 500, id |-> id, docs |-> {}]
               ELSE IF findById(id) = {}
               THEN [op |-> "get", status |-> 404, id |-> id, docs |-> {}]
               ELSE [op |-> "get", status |-> 200, id |-> id, docs |-> findById(id)]
    /\ UNCHANGED <<products, uploads, now, nextId, reqs, started, deleted, fsFailed, stored, cvars>>

(* GET /api/products/images/:imageName: sendFile, 404 on its error.       *)
GetImage(imageName) ==
    /\ resp' = [op |-> "image", image |-> imageName,
                status |-> IF existsSync(imageName) THEN 200 ELSE 404]
    /\ UNCHANGED <<products, uploads, now, nextId, reqs, started, deleted, fsFailed, stored, cvars>>

Next ==
    \/ Tick
    \/ \E r \in Slots, file \in Files, body \in Bodies : CreateArrive(r, file, body)
    \/ \E r \in Slots : CreateSave(r)
    \/ \E r \in Slots, id \in ReqIds, file \in Files, body \in Bodies :
           UpdateArrive(r, id, file, body)
    \/ \E r \in Slots : UpdateFind(r)
    \/ \E r \in Slots, throws \in BOOLEAN : UpdateUnlink(r, throws)
    \/ \E r \in Slots : UpdateApply(r)
    \/ \E r \in Slots, id \in ReqIds : DeleteArrive(r, id)
    \/ \E r \in Slots : DeleteFind(r)
    \/ \E r \in Slots, throws \in BOOLEAN : DeleteUnlink(r, throws)
    \/ \E r \in Slots : DeleteApply(r)
    \/ \E r \in Slots : Respond(r)
    \/ GetProducts
    \/ \E c \in Categories : GetByCategory(c)
    \/ \E id \in ReqIds : GetProduct(id)
    \/ \E imageName \in ImageNames : GetImage(imageName)


Spec == Init /\ [][Next]_vars

(* The write handlers one request at a time, the body drawn from every    *)
(* choice of sent fields.                                                 *)
NextFields ==
    \/ Tick
    \/ started < MaxFieldRequests /\ \E file \in Files, body \in AllBodies :
           CreateArrive(1, file, body)
    \/ CreateSave(1)
    \/ started < MaxFieldRequests /\ \E id \in ReqIds, file \in Files, body \in AllBodies :
           UpdateArrive(1, id, file, body)
    \/ UpdateFind(1)
    \/ \E throws \in BOOLEAN : UpdateUnlink(1, throws)
    \/ UpdateApply(1)
    \/ Respond(1)

SpecFields == Init /\ [][NextFields]_vars

(* Updates and deletes of the first sample product only, interleaved,     *)
(* with no unlinkSync that throws.                                        *)
NextRace ==
    \/ Tick
    \/ \E r \in Slots, file \in Files, body \in Bodies : UpdateArrive(r, 1, file, body)
    \/ \E r \in Slots : UpdateFind(r)
    \/ \E r \in Slots : UpdateUnlink(r, FALSE)
    \/ \E r \in Slots : UpdateApply(r)
    \/ \E r \in Slots : DeleteArrive(r, 1)
    \/ \E r \in Slots : DeleteFind(r)
    \/ \E r \in Slots : DeleteUnlink(r, FALSE)
    \/ \E r \in Slots : DeleteApply(r)
    \/ \E r \in Slots : Respond(r)

SpecRace == Init /\ [][NextRace]_vars

(* ------------------ client (src/client-ui/js/app.js) ------------------ *)

(* The client is the page after DOMContentLoaded: fetchProducts has run   *)
(* up to its first await.  A step is one event handler or one             *)
(* continuation of fetchProducts, run to completion.  A product is the    *)
(* parsed JSON object; a property the object does not have reads as       *)
(* UNDEFINED.  Prices are in cents as in the backend.                     *)

MaxProducts == 17

productsPerPage == 8

(* res.json(products): the schema's paths the client could read; title,   *)
(* console and currentPrice are no paths of productSchema.                *)
toJSON(d) ==
    [_id |-> d.id, name |-> Some(d.name), description |-> Some(d.description),
     price |-> Some(d.price), category |-> Some(d.category), image |-> Some(d.image),
     title |-> UNDEFINED, console |-> UNDEFINED, currentPrice |-> UNDEFINED]

(* The k-th smallest stored id.                                          *)
Nth(S, k) == CHOOSE x \in S : Cardinality({y \in S : y < x}) = k - 1

(* The array GET /api/products answers with, in the store's id order.     *)
served ==
    [k \in 1..Cardinality(DOMAIN products) |-> toJSON(products[Nth(DOMAIN products, k)])]

(* A product with the properties the client reads (title, console,        *)
(* currentPrice, description, image, _id), as the products collection     *)
(* holds them when another program has filled it: seedDatabase leaves a   *)
(* non-empty collection alone and find() returns the stored properties    *)
(* of a document whether or not the schema names them.                    *)
gameProduct(i) ==
    [_id |-> 100 + i, name |-> UNDEFINED, price |-> UNDEFINED, category |-> UNDEFINED,
     title |-> Some(<<"Mario Kart", "FIFA Pro", "Zelda">>[(i % 3) + 1]),
     description |-> Some(<<"Racing", "Football", "Adventure for pros">>[(i % 3) + 1]),
     console |-> Some(<<"switch", "ps5">>[(i % 2) + 1]),
     currentPrice |-> Some(((i * 7) % 5) * 1000 + 999),
     image |-> Some("cover.jpg")]

gameCatalog(n) == [i \in 1..n |-> gameProduct(i)]

(* The arrays this backend serves: the store as it is, and the store      *)
(* after a POST has added a product.                                      *)
ServedCatalogs ==
    {served,
     Append(served, toJSON(toObject(newProduct(nextId,
                CHOOSE body \in Bodies : validate(newProduct(nextId, body, "mug.png", now)),
                filename(now, "mug.png"), now))))}

(* What response.json() resolves with.                                    *)
Catalogs == ServedCatalogs \cup {gameCatalog(n) : n \in 0..MaxProducts}

(* The values of the three controls; the options of the two selects are   *)
(* in the page's markup.                                                  *)
CategoryValues == {"", "electronics", "ps5"}

SortValues == {"", "price_asc", "price_desc", "name_asc", "name_desc"}

SearchTexts == {"", "pro", "PRO"}

(* String.prototype.toLowerCase, letter by letter.                        *)
(* (A character is a string of length one.)                               *)
UpperCase == "ABCDEFGHIJKLMNOPQRSTUVWXYZ"

LowerCase == "abcdefghijklmnopqrstuvwxyz"

(* The lower-case letter of each upper-case letter.                      *)
lowerOf ==
    [c \in {SubSeq(UpperCase, i, i) : i \in 1..Len(UpperCase)} |->
        LET i == CHOOSE i \in 1..Len(UpperCase) : SubSeq(UpperCase, i, i) = c
        IN  SubSeq(LowerCase, i, i)]

toLowerCaseChar(c) == IF c \in DOMAIN lowerOf THEN lowerOf[c] ELSE c

RECURSIVE toLowerCase(_)
toLowerCase(s) ==
    IF s = "" THEN ""
    ELSE toLowerCaseChar(SubSeq(s, 1, 1)) \o toLowerCase(SubSeq(s, 2, Len(s)))

(* String.prototype.includes                                              *)
includes(s, sub) ==
    \E i \in 1..(Len(s) - Len(sub) + 1) : SubSeq(s, i, i + Len(sub) - 1) = sub

(* String.prototype.localeCompare in the default collation: blank and     *)
(* hyphen before digits before letters, letters compared without case     *)
(* first, and on a tie the lower-case letter before the upper-case one.   *)
Collation == " -0123456789abcdefghijklmnopqrstuvwxyz"

rankOf ==
    [c \in {SubSeq(Collation, i, i) : i \in 1..Len(Collation)} |->
        CHOOSE i \in 1..Len(Collation) : SubSeq(Collation, i, i) = c]

rank(c) == IF c \in DOMAIN rankOf THEN rankOf[c] ELSE 0

RECURSIVE primary(_, _)
primary(a, b) ==
    IF a = "" /\ b = "" THEN 0
    ELSE IF a = "" THEN -1
    ELSE IF b = "" THEN 1
    ELSE LET x == rank(SubSeq(a, 1, 1))
             y == rank(SubSeq(b, 1, 1))
         IN  IF x # y THEN x - y
             ELSE primary(SubSeq(a, 2, Len(a)), SubSeq(b, 2, Len(b)))

RECURSIVE tertiary(_, _)
tertiary(a, b) ==
    IF a = "" \/ b = "" THEN 0
    ELSE IF SubSeq(a, 1, 1) = SubSeq(b, 1, 1)
    THEN tertiary(SubSeq(a, 2, Len(a)), SubSeq(b, 2, Len(b)))
    ELSE IF toLowerCaseChar(SubSeq(a, 1, 1)) = SubSeq(a, 1, 1) THEN -1 ELSE 1

localeCompare(a, b) ==
    LET p == primary(toLowerCase(a), toLowerCase(b))
    IN  IF p # 0 THEN p ELSE tertiary(a, b)

(* The filter callback, lines 96-103.                                     *)
matches(product, categoryValue, searchValue) ==
    LET matchesCategory == categoryValue = "" \/ product.console = Some(categoryValue)
        matchesSearch ==
            \/ searchValue = ""
            \/ includes(toLowerCase(product.title[1]), searchValue)
            \/ includes(toLowerCase(product.description[1]), searchValue)
    IN  matchesCategory /\ matchesSearch

(* The callback throws a TypeError when it calls toLowerCase on a         *)
(* property the product does not have.                                    *)
filterThrows(list, searchValue) ==
    /\ searchValue # ""
    /\ \E i \in DOMAIN list :
           \/ list[i].title = UNDEFINED
           \/ /\ ~includes(toLowerCase(list[i].title[1]), searchValue)
              /\ list[i].description = UNDEFINED

(* allProducts.filter(...)                                                *)
filter(list, categoryValue, searchValue) ==
    SelectSeq(list, LAMBDA product : matches(product, categoryValue, searchValue))

(* The comparators of lines 106-119; a difference of undefined prices is  *)
(* NaN, which sort takes as 0.                                            *)
compare(sortValue, a, b) ==
    CASE sortValue = "price_asc" ->
             IF a.currentPrice = UNDEFINED \/ b.currentPrice = UNDEFINED THEN 0
             ELSE a.currentPrice[1] - b.currentPrice[1]
      [] sortValue = "price_desc" ->
             IF a.currentPrice = UNDEFINED \/ b.currentPrice = UNDEFINED THEN 0
             ELSE b.currentPrice[1] - a.currentPrice[1]
      [] sortValue = "name_asc" -> localeCompare(a.title[1], b.title[1])
      [] sortValue = "name_desc" -> localeCompare(b.title[1], a.title[1])
      [] OTHER -> 0

(* A name comparator throws a TypeError when it calls localeCompare on a  *)
(* missing title; sort calls it once the array has two elements.          *)
sortThrows(list, sortValue) ==
    /\ sortValue \in {"name_asc", "name_desc"}
    /\ Len(list) >= 2
    /\ \E i \in DOMAIN list : list[i].title = UNDEFINED

(* Array.prototype.sort, which is stable: each element goes behind the    *)
(* elements that do not compare greater.                                  *)
insert(sorted, x, sortValue) ==
    LET k == Cardinality({i \in DOMAIN sorted : compare(sortValue, sorted[i], x) <= 0})
    IN  SubSeq(sorted, 1, k) \o <<x>> \o SubSeq(sorted, k + 1, Len(sorted))

RECURSIVE sort(_, _)
sort(list, sortValue) ==
    IF list = <<>> THEN <<>>
    ELSE insert(sort(SubSeq(list, 1, Len(list) - 1), sortValue), list[Len(list)], sortValue)

(* A window that starts one page late.                                   *)
startIndex_late(page) == page * productsPerPage

(* startIndex = (currentPage - 1) * productsPerPage                       *)
startIndex(page) == (page - 1) * productsPerPage

endIndex(page) == startIndex(page) + productsPerPage

(* Array.prototype.slice(start, end) for start, end >= 0.                 *)
slice(list, start, end) ==
    SubSeq(list, (IF start < Len(list) THEN start ELSE Len(list)) + 1,
                 IF end < Len(list) THEN end ELSE Len(list))

currentProducts(list, page) == slice(list, startIndex(page), endIndex(page))

(* Math.ceil(filteredProducts.length / productsPerPage)                   *)
totalPages(list) == (Len(list) + productsPerPage - 1) \div productsPerPage

(* The card template throws a TypeError on a product without currentPrice *)
(* (toFixed) or without description (substring).                          *)
cardThrows(product) == product.currentPrice = UNDEFINED \/ product.description = UNDEFINED

renderThrows(list, page) ==
    \E i \in DOMAIN currentProducts(list, page) : cardThrows(currentProducts(list, page)[i])

(* The cards appended before forEach is left.                             *)
cards(window) ==
    LET bad == {i \in DOMAIN window : cardThrows(window[i])}
        good == IF bad = {} THEN Len(window)
                ELSE (CHOOSE i \in bad : \A j \in bad : i <= j) - 1
    IN  [i \in 1..good |-> window[i]._id]

(* renderPagination: the controls it leaves on screen.  The handlers of   *)
(* the buttons keep the totalPages they were made with.                   *)
renderPagination(list, page) ==
    IF totalPages(list) <= 1 THEN NoControls
    ELSE [total |-> totalPages(list),
          active |-> IF page \in 1..totalPages(list) THEN page ELSE 0,
          prevDisabled |-> page = 1,
          nextDisabled |-> page = totalPages(list)]

(* renderProducts with filteredProducts = list and currentPage = page: an *)
(* empty window returns before renderPagination, and so does a throw.     *)
renderProducts(list, page) ==
    LET window == currentProducts(list, page) IN
    IF Len(window) = 0
    THEN /\ productGrid' = [placeholder |-> TRUE, cards |-> <<>>]
         /\ UNCHANGED paginationElement
    ELSE /\ productGrid' = [placeholder |-> FALSE, cards |-> cards(window)]
         /\ paginationElement' = IF renderThrows(list, page) THEN paginationElement
                                 ELSE renderPagination(list, page)

(* applyFilters throws: in the filter, in the sort or in the render.      *)
applyFiltersThrows(list, categoryValue, text, sortValue) ==
    \/ filterThrows(list, toLowerCase(text))
    \/ sortThrows(filter(list, categoryValue, toLowerCase(text)), sortValue)
    \/ renderThrows(sort(filter(list, categoryValue, toLowerCase(text)), sortValue), 1)

(* applyFilters on allProducts = list, up to its end or its throw: a      *)
(* throw in filter leaves filteredProducts as it was (current), a throw   *)
(* in sort leaves it filtered, and both leave currentPage and the page.   *)
applyFilters(list, current, categoryValue, text, sortValue) ==
    LET searchValue == toLowerCase(text)
        filtered == filter(list, categoryValue, searchValue)
    IN  IF filterThrows(list, searchValue)
        THEN /\ filteredProducts' = current
             /\ UNCHANGED <<currentPage, productGrid, paginationElement>>
        ELSE IF sortThrows(filtered, sortValue)
        THEN /\ filteredProducts' = filtered
             /\ UNCHANGED <<currentPage, productGrid, paginationElement>>
        ELSE /\ filteredProducts' = sort(filtered, sortValue)
             /\ currentPage' = 1
             /\ renderProducts(sort(filtered, sortValue), 1)

(* The catch of fetchProducts.                                            *)
showError == [display |-> loadingElement.display, error |-> TRUE]

(* await fetch(...) rejects.                                              *)
FetchRejects ==
    /\ fetching = "fetch"
    /\ fetching' = "rejected"
    /\ loadingElement' = showError
    /\ UNCHANGED <<allProducts, filteredProducts, currentPage, categoryFilter, sortBySelect,
                   searchInput, productGrid, paginationElement, bvars>>

(* await fetch(...) resolves; a response that is not ok is thrown.        *)
FetchResponds(ok) ==
    /\ fetching = "fetch"
    /\ IF ok
       THEN fetching' = "json" /\ UNCHANGED loadingElement
       ELSE fetching' = "notOk" /\ loadingElement' = showError
    /\ UNCHANGED <<allProducts, filteredProducts, currentPage, categoryFilter, sortBySelect,
                   searchInput, productGrid, paginationElement, bvars>>

(* await response.json() rejects.                                         *)
JsonRejects ==
    /\ fetching = "json"
    /\ fetching' = "rejected"
    /\ loadingElement' = showError
    /\ UNCHANGED <<allProducts, filteredProducts, currentPage, categoryFilter, sortBySelect,
                   searchInput, productGrid, paginationElement, bvars>>

(* await response.json() resolves with data: lines 31-35, and the catch   *)
(* when applyFilters throws.                                              *)
FetchResolves(data) ==
    /\ fetching = "json"
    /\ fetching' = "resolved"
    /\ allProducts' = data
    /\ applyFilters(data, data, categoryFilter, searchInput, sortBySelect)
    /\ loadingElement' =
           IF applyFiltersThrows(data, categoryFilter, searchInput, sortBySelect)
           THEN showError
           ELSE [display |-> "none", error |-> loadingElement.error]
    /\ UNCHANGED <<categoryFilter, sortBySelect, searchInput, bvars>>

(* categoryFilter's change event.                                         *)
CategoryChange(v) ==
    /\ v # categoryFilter
    /\ categoryFilter' = v
    /\ applyFilters(allProducts, filteredProducts, v, searchInput, sortBySelect)
    /\ UNCHANGED <<allProducts, sortBySelect, searchInput, fetching, loadingElement, bvars>>

(* A handler that sorts the fetched array itself.                        *)
SortChange_inPlace(v) ==
    /\ v # sortBySelect
    /\ sortBySelect' = v
    /\ allProducts' = IF sortThrows(allProducts, v) THEN allProducts ELSE sort(allProducts, v)
    /\ applyFilters(allProducts, filteredProducts, categoryFilter, searchInput, v)
    /\ UNCHANGED <<categoryFilter, searchInput, fetching, loadingElement, bvars>>

(* sortBySelect's change event.                                           *)
SortChange(v) ==
    /\ v # sortBySelect
    /\ sortBySelect' = v
    /\ applyFilters(allProducts, filteredProducts, categoryFilter, searchInput, v)
    /\ UNCHANGED <<allProducts, categoryFilter, searchInput, fetching, loadingElement, bvars>>

(* searchInput's input event.                                             *)
SearchInput(v) ==
    /\ v # searchInput
    /\ searchInput' = v
    /\ applyFilters(allProducts, filteredProducts, categoryFilter, v, sortBySelect)
    /\ UNCHANGED <<allProducts, categoryFilter, sortBySelect, fetching, loadingElement, bvars>>

(* A click on the page button i that is on screen.                        *)
PageClick(i) ==
    /\ i \in 1..paginationElement.total
    /\ currentPage' = i
    /\ renderProducts(filteredProducts, i)
    /\ UNCHANGED <<allProducts, filteredProducts, categoryFilter, sortBySelect, searchInput,
                   fetching, loadingElement, bvars>>

(* A click on Previous, which a disabled button does not take.            *)
PrevClick ==
    /\ paginationElement.total > 0
    /\ ~paginationElement.prevDisabled
    /\ IF currentPage > 1
       THEN /\ currentPage' = currentPage - 1
            /\ renderProducts(filteredProducts, currentPage - 1)
       ELSE UNCHANGED <<currentPage, productGrid, paginationElement>>
    /\ UNCHANGED <<allProducts, filteredProducts, categoryFilter, sortBySelect, searchInput,
                   fetching, loadingElement, bvars>>

(* A click on Next; its handler compares with the totalPages of the       *)
(* render that made the button.                                           *)
NextClick ==
    /\ paginationElement.total > 0
    /\ ~paginationElement.nextDisabled
    /\ IF currentPage < paginationElement.total
       THEN /\ currentPage' = currentPage + 1
            /\ renderProducts(filteredProducts, currentPage + 1)
       ELSE UNCHANGED <<currentPage, productGrid, paginationElement>>
    /\ UNCHANGED <<allProducts, filteredProducts, categoryFilter, sortBySelect, searchInput,
                   fetching, loadingElement, bvars>>

NextClient ==
    \/ FetchRejects
    \/ \E ok \in BOOLEAN : FetchResponds(ok)
    \/ JsonRejects
    \/ \E data \in Catalogs : FetchResolves(data)
    \/ \E v \in CategoryValues : CategoryChange(v)
    \/ \E v \in SortValues : SortChange(v)
    \/ \E v \in SearchTexts : SearchInput(v)
    \/ \E i \in 1..paginationElement.total : PageClick(i)
    \/ PrevClick
    \/ NextClick

SpecClient == Init /\ [][NextClient]_vars

(* ------------------------------ claims ------------------------------- *)

(* C1: once DELETE has answered 200 for an id, every later GET            *)
(* /api/products answer omits that id and every later GET                 *)
(* /api/products/:id for it answers 404, whatever requests ran between.   *)
C1_DeletedStaysGone ==
    [][ /\ GetProducts => deleted \cap resp'.ids = {}
        /\ \A id \in deleted : GetProduct(id) => resp'.status = 404 ]_vars

(* C1 witness: a GET by id answered 404 for a product whose DELETE was    *)
(* answered 200, after another write request had been accepted.           *)
C1_Witness ==
    /\ resp.op = "get"
    /\ resp.id \in deleted
    /\ resp.status = 404
    /\ started = MaxRequests

(* The step of request r in which unlinkSync is called on an existing     *)
(* file and throws.                                                       *)
UnlinkThrows(r) ==
    /\ reqs[r].pc = "unlink"
    /\ \E p \in reqs[r].old : existsSync(p.image)
    /\ UpdateUnlink(r, TRUE) \/ DeleteUnlink(r, TRUE)

(* C2: image-file deletion is best-effort: when unlinking the prior image *)
(* fails, the update (or the delete) is not aborted but goes on to its    *)
(* store operation.                                                       *)
C2_UnlinkBestEffort ==
    [][ \A r \in Slots : UnlinkThrows(r) => reqs'[r].pc \in {"update", "delete"} ]_vars

(* C3: when PUT with a new image answers 200, the new file is in the      *)
(* Image Store, the old file is not, and the returned document's image is *)
(* the new filename.                                                      *)
C3_NewImageServedOldGone ==
    [][ \A r \in Slots :
          (Respond(r) /\ reqs[r].op = "update" /\ reqs[r].image # NoFile)
            => /\ resp'.status = 200
               /\ existsSync(resp'.image)
               /\ \A o \in resp'.old : ~existsSync(o)
               /\ \A d \in resp'.docs : d.image = resp'.image ]_vars

(* C4: PUT is a partial update: a field the body did not send keeps its   *)
(* value, image keeps its value when no file came, and id and createdAt   *)
(* are never changed.                                                     *)
C4_PartialUpdate ==
    [][ \A r \in Slots :
          (UpdateApply(r) /\ reqs[r].id \in DOMAIN products)
            => LET before == products[reqs[r].id]
                   after == products'[reqs[r].id]
               IN  /\ after.id = before.id
                   /\ after.createdAt = before.createdAt
                   /\ \A f \in Fields : reqs[r].body[f] = UNDEFINED => after[f] = before[f]
                   /\ reqs[r].image = NoFile => after.image = before.image ]_vars

(* C4 witness: an update that sent stock alone has been applied to the    *)
(* first sample product, created before the clock advanced.               *)
C4_Witness ==
    /\ reqs[1].op = "update"
    /\ reqs[1].pc = "respond"
    /\ reqs[1].id = 1
    /\ reqs[1].body.stock = Some(5)
    /\ \A f \in Fields \ {"stock"} : reqs[1].body[f] = UNDEFINED
    /\ products[1].stock = 5
    /\ products[1].name = sampleProducts[1].name
    /\ now > products[1].createdAt

(* C5: GET, PUT and DELETE by an id that resolves to no document each     *)
(* answer 404 and no other status.                                        *)
C5_AbsentIdIs404 ==
    [][ /\ \A id \in ReqIds :
              (GetProduct(id) /\ id \notin DOMAIN products) => resp'.status = 404
        /\ \A r \in Slots :
              ( /\ reqs[r].op \in {"update", "delete"}
                /\ reqs[r].id \notin DOMAIN products
                /\ reqs[r].pc # "respond"
                /\ reqs'[r] = Idle )
                => resp'.status = 404 ]_vars

(* C6: POST without an image file answers 400 and adds no document,       *)
(* whatever fields the body sends.  (The first two conjuncts hold of       *)
(* every step of CreateArrive; they spare the enumeration of the bodies   *)
(* on the steps of other handlers.)                                       *)
C6_CreateNeedsImage ==
    [][ ( /\ started' = started + 1
          /\ \A q \in Slots : reqs'[q].op \in {reqs[q].op, "create"}
          /\ \E r \in Slots, body \in AllBodies : CreateArrive(r, NoFile, body) )
          => /\ resp'.op = "create"
             /\ resp'.status = 400
             /\ products' = products
             /\ reqs' = reqs ]_vars

(* C6 witness: a POST without a file has been answered 400.               *)
C6_Witness ==
    /\ resp.op = "create"
    /\ resp.image = NoFile
    /\ resp.status = 400
    /\ started = 1
    /\ DOMAIN products = SeedIds

(* C7: GET /api/products/category/:c returns exactly the stored products  *)
(* whose category is c.                                                   *)
C7_CategoryExact ==
    [][ \A c \in Categories :
          GetByCategory(c)
            => /\ resp'.ids \subseteq DOMAIN products
               /\ \A id \in DOMAIN products :
                     products[id].category = c <=> id \in resp'.ids ]_vars

(* C7 witness: the answer for "home" holds a created product and a        *)
(* sample product, and not every stored product.                          *)
C7_Witness ==
    /\ resp.op = "category"
    /\ resp.category = "home"
    /\ {5, Len(sampleProducts) + 1} \subseteq resp.ids
    /\ resp.ids # DOMAIN products
    /\ resp.ids = {id \in DOMAIN products : products[id].category = "home"}

(* C8: in every reachable state every stored product's image names a file *)
(* that exists in the Image Store.                                        *)
C8_ImageExists ==
    \A id \in DOMAIN products : existsSync(products[id].image)

(* C9: every stored product has price >= 0 and stock >= 0.                *)
C9_NonNegative ==
    \A id \in DOMAIN products : products[id].price >= 0 /\ products[id].stock >= 0

(* C10: an upload never takes the name of a file already in the Image     *)
(* Store, and no two products share one image file.                       *)
C10_NamesCollisionFree ==
    [][ /\ \A r \in Slots, file \in OriginalNames :
              ( \/ \E body \in Bodies : CreateArrive(r, file, body)
                \/ \E id \in ReqIds, body \in Bodies : UpdateArrive(r, id, file, body) )
                => ~existsSync(filename(now, file))
        /\ \A i, j \in DOMAIN products' :
              i # j => products'[i].image # products'[j].image ]_vars

(* --------------------------- client claims --------------------------- *)

(* The elements of an array.                                              *)
Elements(list) == {list[i] : i \in DOMAIN list}

(* A step in which applyFilters has run: the continuation of the fetch or *)
(* the change of a control.                                               *)
AppliedFilters ==
    \/ fetching # "resolved" /\ fetching' = "resolved"
    \/ categoryFilter' # categoryFilter
    \/ sortBySelect' # sortBySelect
    \/ searchInput' # searchInput

(* The documented predicates: the category field equals the selection,    *)
(* and the text occurs without regard to case in name or description.     *)
occursIn(product, field, text) ==
    /\ product[field] # UNDEFINED
    /\ includes(toLowerCase(product[field][1]), toLowerCase(text))

passes(product, categoryValue, text) ==
    /\ categoryValue = "" \/ product.category = Some(categoryValue)
    /\ text = "" \/ occursIn(product, "name", text) \/ occursIn(product, "description", text)

(* C11: once the products the Catalog API returns are fetched, for every  *)
(* category selection and search text applyFilters sets filteredProducts  *)
(* to exactly the fetched products whose category field equals the        *)
(* selection (or none is selected) and whose name or description holds    *)
(* the text without regard to case (or the text is empty); texts that     *)
(* differ in case only give the same products.                            *)
C11_FilterExact ==
    [][ (AppliedFilters /\ fetching' = "resolved" /\ allProducts' \in ServedCatalogs) =>
            /\ Elements(filteredProducts') =
                   {p \in Elements(allProducts') : passes(p, categoryFilter', searchInput')}
            /\ Len(filteredProducts') = Cardinality(Elements(filteredProducts'))
            /\ \A t \in SearchTexts :
                   toLowerCase(t) = toLowerCase(searchInput') =>
                       Elements(filteredProducts') =
                           {p \in Elements(allProducts') : passes(p, categoryFilter', t)} ]_vars

(* The price the schema names, of the i-th element.                       *)
priceAt(list, i) == list[i].price[1]

(* C12: with sort by price ascending selected, filteredProducts after     *)
(* applyFilters has each product's price <= the next one's, with price    *)
(* descending each price >= the next one's, and it is a permutation of    *)
(* the products that passed the filter.                                   *)
C12_PriceSorted ==
    [][ (AppliedFilters /\ fetching' = "resolved" /\ allProducts' \in ServedCatalogs
            /\ sortBySelect' \in {"price_asc", "price_desc"}) =>
            /\ Elements(filteredProducts') =
                   {p \in Elements(allProducts') : passes(p, categoryFilter', searchInput')}
            /\ Len(filteredProducts') = Cardinality(Elements(filteredProducts'))
            /\ \A i \in 1..(Len(filteredProducts') - 1) :
                   IF sortBySelect' = "price_asc"
                   THEN priceAt(filteredProducts', i) <= priceAt(filteredProducts', i + 1)
                   ELSE priceAt(filteredProducts', i) >= priceAt(filteredProducts', i + 1) ]_vars

(* The windows of pages 1..k, one after the other.                        *)
RECURSIVE Windows(_, _)
Windows(list, k) ==
    IF k = 0 THEN <<>> ELSE Windows(list, k - 1) \o currentProducts(list, k)

(* C13: for every filteredProducts the windows of pages                   *)
(* 1..ceil(length / 8), put together in page order, are filteredProducts  *)
(* itself, each element once, and every page but the last holds exactly   *)
(* 8 elements.                                                            *)
C13_PagesPartition ==
    /\ Windows(filteredProducts, totalPages(filteredProducts)) = filteredProducts
    /\ \A page \in 1..(totalPages(filteredProducts) - 1) :
           Len(currentProducts(filteredProducts, page)) = productsPerPage

(* C13 witness: three pages, the last one with a single product, and the  *)
(* grid showing that last page.                                           *)
C13_Witness ==
    /\ Len(filteredProducts) = 2 * productsPerPage + 1
    /\ currentPage = 3
    /\ productGrid.cards = <<filteredProducts[Len(filteredProducts)]._id>>

(* C14: after any sequence of filter and page changes the controls on     *)
(* screen match the state: none when ceil(filteredProducts.length / 8)    *)
(* is at most 1 (an empty result included), else that many numbered       *)
(* buttons with the current page marked, Previous disabled exactly on     *)
(* page 1 and Next disabled exactly on the last page.                     *)
C14_ControlsMatch ==
    IF totalPages(filteredProducts) <= 1
    THEN paginationElement.total = 0
    ELSE /\ paginationElement.total = totalPages(filteredProducts)
         /\ paginationElement.active = currentPage
         /\ paginationElement.prevDisabled <=> currentPage = 1
         /\ paginationElement.nextDisabled <=> currentPage = totalPages(filteredProducts)

(* C15: the loading indicator is shown from the start of the fetch until  *)
(* it settles; the error indicator is shown exactly when the fetch        *)
(* rejected or answered a response that is not ok; when the fetch         *)
(* resolves with products as the Catalog API serves them, the loading     *)
(* indicator is hidden and no error indicator is shown.                   *)
C15_LoadingAndError ==
    /\ fetching \in {"fetch", "json"} => loadingElement.display = "block"
    /\ loadingElement.error <=> fetching \in {"rejected", "notOk"}
    /\ (fetching = "resolved" /\ allProducts \in ServedCatalogs) =>
           loadingElement.display = "none" /\ ~loadingElement.error

(* A click on a pagination button.                                        *)
PageChange ==
    \/ \E i \in 1..paginationElement.total : PageClick(i)
    \/ PrevClick
    \/ NextClick

(* C16: once the fetch has resolved no client action changes allProducts, *)
(* in content or order, and a page change leaves filteredProducts (and    *)
(* the controls) as they are and changes currentPage only.                *)
C16_Frame ==
    [][ /\ fetching = "resolved" => allProducts' = allProducts
        /\ PageChange =>
               /\ filteredProducts' = filteredProducts
               /\ allProducts' = allProducts
               /\ <<categoryFilter, sortBySelect, searchInput>>' =
                      <<categoryFilter, sortBySelect, searchInput>> ]_vars

(* C16 witness: the fetched products are shown sorted by price, on the    *)
(* second page, and allProducts is still in the fetched order.            *)
C16_Witness ==
    /\ fetching = "resolved"
    /\ allProducts = gameCatalog(MaxProducts)
    /\ sortBySelect = "price_asc"
    /\ filteredProducts # allProducts
    /\ Len(filteredProducts) = Len(allProducts)
    /\ currentPage = 2

(* ------------------------- backend claims (2) ------------------------ *)

(* The step in which the create or update request in slot r answers 400   *)
(* or 404.                                                                *)
ErrorAnswer(r) ==
    /\ reqs[r].op \in {"create", "update"}
    /\ reqs'[r] = Idle
    /\ resp'.status \in {400, 404}

(* The step in which a create without a file is answered 400 at once.     *)
ErrorAtOnce ==
    /\ started' = started + 1
    /\ reqs' = reqs
    /\ resp'.op = "create"

(* The name multer stored the file of the request in slot q under, in     *)
(* request record rec; NoFile when the request carried none.              *)
storedBy(rec) ==
    CASE rec.op = "create" -> rec.doc.image[1]
      [] rec.op = "update" -> rec.image
      [] OTHER -> NoFile

(* The files an update has passed to its unlink step.                     *)
unlinkedBy(rec) ==
    IF rec.op = "update" /\ rec.pc = "update" THEN {p.image : p \in rec.old} ELSE {}

(* C17 as stated: a create or update that answers 400 or 404 leaves the   *)
(* Product Store and the Image Store as they were before the request: it  *)
(* has stored no file, unlinked none and written no document.             *)
C17_ErrorLeavesStores ==
    [][ /\ \A r \in Slots :
               ErrorAnswer(r) =>
                   /\ products' = products /\ uploads' = uploads
                   /\ storedBy(reqs[r]) = NoFile
                   /\ unlinkedBy(reqs[r]) = {}
        /\ ErrorAtOnce => products' = products /\ uploads' = uploads ]_vars

(* C17 amended: a create or update that answers 400 or 404 has written no *)
(* document: the Product Store changes only in a step of a request that   *)
(* goes on to answer 200 or 201; and the Image Store changes only in a    *)
(* step of a delete or of a request that carried a file, so a request     *)
(* without a file leaves it as it was, while the file uploaded with a     *)
(* failing request stays.                                                 *)
C17_ErrorLeavesDocuments ==
    [][ /\ \A r \in Slots : ErrorAnswer(r) => products' = products /\ uploads' = uploads
        /\ ErrorAtOnce => products' = products /\ uploads' = uploads
        /\ products' # products =>
               \E r \in Slots :
                   /\ reqs[r].pc # "respond" /\ reqs'[r].pc = "respond"
                   /\ reqs'[r].out.status \in {200, 201}
        /\ uploads' # uploads =>
               \E r \in Slots :
                   /\ reqs'[r] # reqs[r]
                   /\ reqs'[r].op = "delete" \/ storedBy(reqs'[r]) # NoFile ]_vars

(* C17 witness: a create with a file was answered 400 for its missing     *)
(* fields; the store is the seeded one and the uploaded file is there.    *)
C17_Witness ==
    /\ resp.op = "create"
    /\ resp.status = 400
    /\ resp.image # NoFile
    /\ existsSync(resp.image)
    /\ products = seedDatabase

(* Every request has completed, none was a create that stored a product,  *)
(* no unlinkSync has thrown and no two uploads were stored under one      *)
(* name: what has run are updates and deletes, and the one sample product *)
(* they name is what they race for.                                       *)
UpdatesAndDeletesDone ==
    /\ \A r \in Slots : reqs[r] = Idle
    /\ nextId = Len(sampleProducts) + 1
    /\ ~fsFailed
    /\ Cardinality(Elements(stored)) = Len(stored)

(* C18: under every interleaving of updates (with or without a new image) *)
(* and deletes of one product id, the upload names distinct and no file   *)
(* system or store failure, once all requests have completed every        *)
(* document left in the Product Store names an image file that exists.    *)
C18_RemainingNamesFile ==
    UpdatesAndDeletesDone =>
        \A id \in DOMAIN products : existsSync(products[id].image)

(* C18 witness: two updates of the same product with new images ran       *)
(* interleaved: the one that uploaded first wrote the document last, so   *)
(* the document names the first upload and the second upload is left.     *)
C18_Witness ==
    /\ UpdatesAndDeletesDone
    /\ started = MaxRequests
    /\ Len(stored) = 2
    /\ 1 \in DOMAIN products
    /\ products[1].image = stored[1]
    /\ existsSync(stored[2])

(* -------------------------- client claims (2) ------------------------ *)

(* C19: in every reachable client state, after any fetch completion,      *)
(* filter, sort and search changes and clicks on the pagination buttons   *)
(* that are on screen, 1 <= currentPage <= max(1, ceil(length / 8)) for   *)
(* the length of filteredProducts.                                        *)
C19_PageInRange ==
    /\ 1 <= currentPage
    /\ currentPage <= (IF totalPages(filteredProducts) > 1
                       THEN totalPages(filteredProducts) ELSE 1)

(* Two neighbours are in the documented order of the sort selected: by    *)
(* the price field, or by the name field compared as the locale does.     *)
inOrder(sortValue, a, b) ==
    CASE sortValue = "price_asc" -> a.price[1] <= b.price[1]
      [] sortValue = "price_desc" -> a.price[1] >= b.price[1]
      [] sortValue = "name_asc" -> localeCompare(a.name[1], b.name[1]) <= 0
      [] sortValue = "name_desc" -> localeCompare(a.name[1], b.name[1]) >= 0
      [] OTHER -> TRUE

(* C20: after every completed handler of the client (fetch resolution,    *)
(* category, sort and search change, page change), filter events before   *)
(* the fetch resolves included, filteredProducts is the result of         *)
(* filtering and sorting the current allProducts, as the Catalog API      *)
(* serves them, with the current values of the three controls.            *)
C20_FilteredIsDerived ==
    (allProducts = <<>> \/ allProducts \in ServedCatalogs) =>
        /\ Elements(filteredProducts) =
               {p \in Elements(allProducts) : passes(p, categoryFilter, searchInput)}
        /\ Len(filteredProducts) = Cardinality(Elements(filteredProducts))
        /\ \A i \in 1..(Len(filteredProducts) - 1) :
               inOrder(sortBySelect, filteredProducts[i], filteredProducts[i + 1])

====
